---- MODULE Spec2Model ----
(***************************************************************************)
(* Certificate lookup tree and TLS hostname matcher of shrpx_ssl.cc.       *)
(*                                                                         *)
(* Strings are sequences of one-character strings; C indices are 0-based,  *)
(* so At(s, i) is s[i] of the source.  A pointer into a hostname buffer is *)
(* the index of that buffer in lt->hosts; nullptr is 0.                    *)
(***************************************************************************)
EXTENDS Integers, Sequences, FiniteSets, TLC

VARIABLES nodes, hosts, regs, call, result, matched,
          cb, handler, ssl, worker_config

vars == <<nodes, hosts, regs, call, result, matched,
          cb, handler, ssl, worker_config>>

\* the lookup tree with the record of the call made on it
treeVars == <<nodes, hosts, regs, call, result, matched>>

\* the state the TLS callbacks work on
cbVars == <<cb, handler, ssl, worker_config>>

-----------------------------------------------------------------------------
(* Bounds of the model *)

\* number of cert_lookup_tree_add_cert calls explored
MaxAdds == 3

\* length of the enumerated left-most labels of hostnames given to the matcher
MaxLabel == 3

-----------------------------------------------------------------------------
(* Characters and the util:: string helpers *)

UpperCase == <<"A", "B", "D", "E", "L", "N", "S", "T", "V", "X">>
LowerCase == <<"a", "b", "d", "e", "l", "n", "s", "t", "v", "x">>

\* util::lowcase: ASCII upper-case letters map to lower case, all else is kept
lowcase(c) ==
  IF \E k \in 1..Len(UpperCase) : UpperCase[k] = c
  THEN LowerCase[CHOOSE k \in 1..Len(UpperCase) : UpperCase[k] = c]
  ELSE c

Min(S) == CHOOSE m \in S : \A n \in S : m <= n
Max(S) == CHOOSE m \in S : \A n \in S : m >= n

\* s[i] of the source, 0-based
At(s, i) == s[i + 1]

\* the characters s[from], ..., s[to-1]
Range(s, from, to) == SubSeq(s, from + 1, to)

\* the C string starting at pointer s + from
From(s, from) == SubSeq(s, from + 1, Len(s))

\* strchr(s + from, c): index of the first c at or after from, -1 for nullptr
strchr(s, from, c) ==
  LET hit == {i \in from..(Len(s) - 1) : At(s, i) = c}
  IN  IF hit = {} THEN -1 ELSE Min(hit)

\* lower-cased copy of a string
ToLower(s) == [i \in 1..Len(s) |-> lowcase(s[i])]

\* util::strieq: case-insensitive equality of two C strings
strieq(a, b) ==
  /\ Len(a) = Len(b)
  /\ \A i \in 1..Len(a) : lowcase(a[i]) = lowcase(b[i])

\* util::istartsWith: a begins with b, case-insensitively
istartsWith(a, b) ==
  /\ Len(a) >= Len(b)
  /\ \A i \in 1..Len(b) : lowcase(a[i]) = lowcase(b[i])

\* util::iendsWith: a ends with b, case-insensitively
iendsWith(a, b) ==
  /\ Len(a) >= Len(b)
  /\ \A i \in 1..Len(b) : lowcase(a[Len(a) - Len(b) + i]) = lowcase(b[i])

XnPrefix == <<"x", "n", "-", "-">>

-----------------------------------------------------------------------------
(* tls_hostname_match *)

\* WildcardEnabled without the A-label test
WildcardEnabled_NoIdnGate(pattern) ==
  LET ptWildcard == strchr(pattern, 0, "*")
      ptLeftLabelEnd == strchr(pattern, 0, ".")
  IN  ~ (\/ ptLeftLabelEnd = -1
         \/ strchr(pattern, ptLeftLabelEnd + 1, ".") = -1
         \/ ptLeftLabelEnd < ptWildcard)

\* WildcardEnabled without the test for a second '.'
WildcardEnabled_OneDot(pattern) ==
  LET ptWildcard == strchr(pattern, 0, "*")
      ptLeftLabelEnd == strchr(pattern, 0, ".")
  IN  ~ (\/ ptLeftLabelEnd = -1
         \/ ptLeftLabelEnd < ptWildcard
         \/ istartsWith(pattern, XnPrefix))

\* lines 574-577: the pattern has two dots, its first '*' is in the left-most
\* label, and it is no A-label
WildcardEnabled(pattern) ==
  LET ptWildcard == strchr(pattern, 0, "*")
      ptLeftLabelEnd == strchr(pattern, 0, ".")
  IN  ~ (\/ ptLeftLabelEnd = -1
         \/ strchr(pattern, ptLeftLabelEnd + 1, ".") = -1
         \/ ptLeftLabelEnd < ptWildcard
         \/ istartsWith(pattern, XnPrefix))

\* SameParent that only asks the hostname to have a '.'
SameParent_AnyParent(pattern, hostname) ==
  strchr(hostname, 0, ".") # -1

\* SameParent that lets the hostname end with the pattern's parent domain
SameParent_SuffixOnly(pattern, hostname) ==
  LET ptLeftLabelEnd == strchr(pattern, 0, ".")
      hnLeftLabelEnd == strchr(hostname, 0, ".")
  IN  /\ hnLeftLabelEnd # -1
      /\ iendsWith(From(hostname, hnLeftLabelEnd),
                   From(pattern, ptLeftLabelEnd))

\* lines 581-584: the hostname has a '.', and from its first '.' on it equals
\* the pattern from the pattern's first '.' on
SameParent(pattern, hostname) ==
  LET ptLeftLabelEnd == strchr(pattern, 0, ".")
      hnLeftLabelEnd == strchr(hostname, 0, ".")
  IN  ~ (\/ hnLeftLabelEnd = -1
         \/ ~ strieq(From(pattern, ptLeftLabelEnd),
                     From(hostname, hnLeftLabelEnd)))

\* LabelLongEnough with <= for <
LabelLongEnough_Strict(pattern, hostname) ==
  ~ (strchr(hostname, 0, ".") <= strchr(pattern, 0, "."))

\* LabelLongEnough without the length test
LabelLongEnough_NoTest(pattern, hostname) == TRUE

\* lines 587-589: '*' must match at least one character
LabelLongEnough(pattern, hostname) ==
  ~ (strchr(hostname, 0, ".") < strchr(pattern, 0, "."))

\* lines 590-592: the left-most label starts with the part before '*' and ends
\* with the part after it
LabelMatches(pattern, hostname) ==
  LET ptWildcard == strchr(pattern, 0, "*")
      ptLeftLabelEnd == strchr(pattern, 0, ".")
      hnLeftLabelEnd == strchr(hostname, 0, ".")
  IN  /\ istartsWith(Range(hostname, 0, hnLeftLabelEnd),
                     Range(pattern, 0, ptWildcard))
      /\ iendsWith(Range(hostname, 0, hnLeftLabelEnd),
                   Range(pattern, ptWildcard + 1, ptLeftLabelEnd))

tls_hostname_match(pattern, hostname) ==
  IF strchr(pattern, 0, "*") = -1 THEN strieq(pattern, hostname)
  ELSE IF ~ WildcardEnabled(pattern) THEN strieq(pattern, hostname)
  ELSE IF ~ SameParent(pattern, hostname) THEN FALSE
  ELSE IF ~ LabelLongEnough(pattern, hostname) THEN FALSE
  ELSE LabelMatches(pattern, hostname)

-----------------------------------------------------------------------------
(* The tree *)

NullCtx == 0
RootId == 1

\* struct CertNode as filled in by cert_lookup_tree_new for the root
RootNode ==
  [ssl_ctx |-> NullCtx, str |-> 0, first |-> 0, last |-> 0,
   wildcard_certs |-> <<>>, next |-> <<>>]

\* FindChild that looks at no child
FindChild_None(ns, hs, node, c) == Len(ns[node].next) + 1

\* index in node->next of the first child whose edge begins with c,
\* Len(node->next) + 1 when there is none (i == next_len)
FindChild(ns, hs, node, c) ==
  LET kids == ns[node].next
      hit == {i \in 1..Len(kids) :
                At(hs[ns[kids[i]].str], ns[kids[i]].first) = c}
  IN  IF hit = {} THEN Len(kids) + 1 ELSE Min(hit)

\* for (j = offset; j >= 0 && hostname[j] != '*'; --j);
ScanWildcard(hostname, offset) ==
  LET hit == {j \in 0..offset : At(hostname, j) = "*"}
  IN  IF hit = {} THEN -1 ELSE Max(hit)

\* number of iterations of
\*   for (i = cn->first, j = offset;
\*        i > cn->last && j >= 0 && cn->str[i] == hostname[j]; --i, --j);
AddWalk(str, first, last, hostname, offset) ==
  LET Go(t) == /\ first - t > last
               /\ offset - t >= 0
               /\ At(str, first - t) = At(hostname, offset - t)
  IN  CHOOSE k \in 0..(first - last) :
        /\ \A t \in 0..(k - 1) : Go(t)
        /\ ~ Go(k)

\* lines 775-788: the node made for the rest of the hostname, up to its '*'
NewLeaf(ssl_ctx, h, hostname, offset) ==
  LET j == ScanWildcard(hostname, offset)
  IN  [ssl_ctx |-> IF j = -1 THEN ssl_ctx ELSE NullCtx,
       str |-> h, first |-> offset, last |-> j,
       wildcard_certs |-> IF j = -1 THEN <<>> ELSE << <<h, ssl_ctx>> >>,
       next |-> <<>>]

\* SameHostCtx that overwrites the context
SameHostCtx_Overwrite(old_ctx, ssl_ctx) == ssl_ctx

\* lines 798-802: the context of a node that already spells the hostname
SameHostCtx(old_ctx, ssl_ctx) ==
  IF old_ctx # NullCtx THEN old_ctx ELSE ssl_ctx

\* SplitTail with an empty edge
SplitTail_Empty(cn, i) ==
  [ssl_ctx |-> cn.ssl_ctx, str |-> cn.str, first |-> i, last |-> i,
   wildcard_certs |-> cn.wildcard_certs, next |-> cn.next]

\* SplitTail that forgets the context of the split node
SplitTail_NoCtx(cn, i) ==
  [ssl_ctx |-> NullCtx, str |-> cn.str, first |-> i, last |-> cn.last,
   wildcard_certs |-> cn.wildcard_certs, next |-> cn.next]

\* lines 809-815: the node that inherits the inner part of a split edge
SplitTail(cn, i) ==
  [ssl_ctx |-> cn.ssl_ctx, str |-> cn.str, first |-> i, last |-> cn.last,
   wildcard_certs |-> cn.wildcard_certs, next |-> cn.next]

\* SplitHead that keeps its context when the hostname goes on
SplitHead_KeepsCtx(cn, i, j, ssl_ctx, newId) ==
  [cn EXCEPT !.wildcard_certs = <<>>,
             !.next = <<newId>>,
             !.last = i,
             !.ssl_ctx = IF j = -1 THEN ssl_ctx ELSE @]

\* SplitHead that keeps its wildcard list
SplitHead_KeepsWildcards(cn, i, j, ssl_ctx, newId) ==
  [cn EXCEPT !.next = <<newId>>,
             !.last = i,
             !.ssl_ctx = IF j = -1 THEN ssl_ctx ELSE NullCtx]

\* SplitHead that keeps its child list
SplitHead_KeepsNext(cn, i, j, ssl_ctx, newId) ==
  [cn EXCEPT !.wildcard_certs = <<>>,
             !.next = Append(@, newId),
             !.last = i,
             !.ssl_ctx = IF j = -1 THEN ssl_ctx ELSE NullCtx]

\* lines 814-826: the split node itself, which keeps the outer part
SplitHead(cn, i, j, ssl_ctx, newId) ==
  [cn EXCEPT !.wildcard_certs = <<>>,
             !.next = <<newId>>,
             !.last = i,
             !.ssl_ctx = IF j = -1 THEN ssl_ctx ELSE NullCtx]

RECURSIVE add_cert_node(_, _, _, _, _, _)
add_cert_node(ns, hs, node, ssl_ctx, h, offset) ==
  LET hostname == hs[h]
      c == At(hostname, offset)
      ci == FindChild(ns, hs, node, c)
  IN  IF ci = Len(ns[node].next) + 1
      THEN IF c = "*"
           THEN [ns EXCEPT ![node].wildcard_certs = Append(@, <<h, ssl_ctx>>)]
           ELSE Append([ns EXCEPT ![node].next = Append(@, Len(ns) + 1)],
                       NewLeaf(ssl_ctx, h, hostname, offset))
      ELSE LET cnId == ns[node].next[ci]
               cn == ns[cnId]
               k == AddWalk(hs[cn.str], cn.first, cn.last, hostname, offset)
               i == cn.first - k
               j == offset - k
           IN  IF i = cn.last
               THEN IF j = -1
                    THEN [ns EXCEPT
                            ![cnId].ssl_ctx = SameHostCtx(cn.ssl_ctx, ssl_ctx)]
                    ELSE add_cert_node(ns, hs, cnId, ssl_ctx, h, j)
               ELSE LET newId == Len(ns) + 1
                        split ==
                          Append([ns EXCEPT
                                    ![cnId] = SplitHead(cn, i, j, ssl_ctx, newId)],
                                 SplitTail(cn, i))
                    IN  IF j = -1
                        THEN split
                        ELSE add_cert_node(split, hs, cnId, ssl_ctx, h, j)

\* number of iterations of
\*   for (i = node->first, j = offset; i > node->last && j >= 0 &&
\*        node->str[i] == util::lowcase(hostname[j]); --i, --j);
LookupWalk(str, first, last, hostname, offset) ==
  LET Go(t) == /\ first - t > last
               /\ offset - t >= 0
               /\ At(str, first - t) = lowcase(At(hostname, offset - t))
  IN  CHOOSE k \in 0..(first - last) :
        /\ \A t \in 0..(k - 1) : Go(t)
        /\ ~ Go(k)

\* lines 859-867: the hostname ends at this node
ExactResult(n) ==
  IF n.ssl_ctx # NullCtx THEN n.ssl_ctx ELSE NullCtx

\* lines 869-873: the positions in node->wildcard_certs of the patterns the
\* matcher approves for the hostname
WildcardHits(n, hs, hostname) ==
  {t \in 1..Len(n.wildcard_certs) :
     tls_hostname_match(hs[n.wildcard_certs[t][1]], hostname)}

\* FirstWildcard that returns the context of the last approved pattern
FirstWildcard_Last(n, wm) == n.wildcard_certs[Max(wm)][2]

\* lines 869-873: the loop returns at the first approved pattern, in the order
\* of node->wildcard_certs
FirstWildcard(n, wm) == n.wildcard_certs[Min(wm)][2]

RECURSIVE lookup_node(_, _, _, _, _)
lookup_node(ns, hs, node, hostname, offset) ==
  LET n == ns[node]
      k == LookupWalk(IF n.str = 0 THEN <<>> ELSE hs[n.str],
                      n.first, n.last, hostname, offset)
      i == n.first - k
      j == offset - k
      wm == WildcardHits(n, hs, hostname)
  IN  IF i # n.last THEN NullCtx
      ELSE IF j = -1 THEN ExactResult(n)
      ELSE IF wm # {} THEN FirstWildcard(n, wm)
      ELSE LET ci == FindChild(ns, hs, node, lowcase(At(hostname, j)))
           IN  IF ci = Len(n.next) + 1
               THEN NullCtx
               ELSE lookup_node(ns, hs, n.next[ci], hostname, j)

\* SSL_CTX *cert_lookup_tree_lookup(lt, hostname, len)
cert_lookup_tree_lookup(ns, hs, hostname) ==
  lookup_node(ns, hs, RootId, hostname, Len(hostname) - 1)

\* add_cert_hosts without the test of len
add_cert_hosts_PushEmpty(hs, hostname) == Append(hs, ToLower(hostname))

\* add_cert_hosts that copies the hostname without lower-casing it
add_cert_hosts_NoLowcase(hs, hostname) ==
  IF Len(hostname) = 0 THEN hs ELSE Append(hs, hostname)

\* lt->hosts after void cert_lookup_tree_add_cert(lt, ssl_ctx, hostname, len)
add_cert_hosts(hs, hostname) ==
  IF Len(hostname) = 0 THEN hs ELSE Append(hs, ToLower(hostname))

\* the nodes after void cert_lookup_tree_add_cert(lt, ssl_ctx, hostname, len)
cert_lookup_tree_add_cert(ns, hs, ssl_ctx, hostname) ==
  IF Len(hostname) = 0
  THEN ns
  ELSE add_cert_node(ns, add_cert_hosts(hs, hostname), RootId, ssl_ctx,
                     Len(hs) + 1, Len(hostname) - 1)

-----------------------------------------------------------------------------
(* Inputs *)

\* the TLS contexts handed to the tree (never nullptr)
Contexts == {1, 2}

\* hostnames registered in the tree
AddNames ==
  { <<"a", ".", "d", ".", "e">>,
    <<"A", ".", "D", ".", "e">>,
    <<"b", ".", "d", ".", "e">>,
    <<"d", ".", "e">>,
    <<"*", ".", "d", ".", "e">>,
    <<"a", "*", ".", "d", ".", "e">>,
    <<>> }

\* hostnames looked up in the tree
Queries ==
  { <<"a", ".", "d", ".", "e">>,
    <<"a", ".", "D", ".", "E">>,
    <<"b", ".", "d", ".", "e">>,
    <<"d", ".", "e">>,
    <<"x", ".", "d", ".", "e">>,
    <<"a", "b", ".", "d", ".", "e">>,
    <<"b", ".", "a", ".", "d", ".", "e">>,
    <<>> }

\* A-label patterns registered in the tree
IdnNames ==
  { <<"x", "n", "-", "-", "*", ".", "d", ".", "e">>,
    <<"X", "N", "-", "-", "*", ".", "D", ".", "e">>,
    <<"x", "n", "-", "-", "a", "*", ".", "d", ".", "e">> }

\* hostnames looked up in a tree of A-label patterns
IdnQueries ==
  IdnNames \cup
  { <<"x", "n", "-", "-", "a", ".", "d", ".", "e">>,
    <<"x", "n", "-", "-", "a", "b", ".", "d", ".", "e">>,
    <<"x", "n", "-", "-", ".", "d", ".", "e">>,
    <<"x", "N", "-", "-", "*", ".", "d", ".", "E">>,
    <<"d", ".", "e">> }

\* all strings over the alphabet A of length at most n
RECURSIVE Strings(_, _)
Strings(A, n) ==
  IF n = 0 THEN {<<>>}
  ELSE LET shorter == Strings(A, n - 1)
       IN  shorter \cup {Append(s, c) : s \in shorter, c \in A}

\* parent domains .d.e of the patterns given to the matcher
Parents ==
  {<<".">> \o d \o <<".">> \o e :
     d \in {<<"d">>, <<"D">>, <<"e">>}, e \in {<<"d">>, <<"e">>, <<"E">>}}

\* the parts of a pattern's left-most label around its '*'
Affixes == {<<>>, <<"a">>, <<"A">>, <<"b">>}

\* patterns given to the matcher: wildcards in the left-most label of a
\* three-label name, A-label wildcards, and patterns whose wildcard is disabled
MatchPatterns ==
  {pre \o <<"*">> \o suf \o par :
     pre \in Affixes, suf \in Affixes, par \in Parents}
  \cup IdnNames
  \cup { <<"*", ".", "e">>, <<"*">>, <<"a", ".", "*", ".", "d", ".", "e">>,
         <<"a", ".", "d", ".", "e">>, <<"a", "*", "*", ".", "d", ".", "e">> }

\* what follows the left-most label of the hostnames given to the matcher
HostTails ==
  Parents \cup
  { <<>>, <<".", "e">>, <<".", "a", ".", "d", ".", "e">>,
    <<".", "d", ".", "d", ".", "e">>, <<".", "*", ".", "d", ".", "e">> }

\* hostnames given to the matcher
MatchHosts ==
  {x \o t : x \in Strings({"a", "A", "b"}, MaxLabel), t \in HostTails}
  \cup IdnQueries \cup MatchPatterns

NoCall == [op |-> "none", pattern |-> <<>>, hostname |-> <<>>, ctx |-> NullCtx]

-----------------------------------------------------------------------------
(* The tree as a state machine: cert_lookup_tree_new, then the add_cert calls *)
(* of the server setup, then the lookup of a handshake.  A lookup leaves the  *)
(* tree as it is, so a behaviour follows one handshake.  regs records the     *)
(* add_cert calls made, in order.                                             *)

\* no callback has been given arguments, no session and no configuration exist
NoCb == [op |-> "none"]
NoHandler == [op |-> "none"]
NoConfig == [op |-> "none"]

CallbacksIdle ==
  /\ cb = NoCb
  /\ handler = NoHandler
  /\ ssl = <<>>
  /\ worker_config = NoConfig

TreeEmpty ==
  /\ nodes = <<RootNode>>
  /\ hosts = <<>>
  /\ regs = <<>>
  /\ call = NoCall
  /\ result = NullCtx
  /\ matched = FALSE

Init ==
  /\ TreeEmpty
  /\ CallbacksIdle

AddCert(ssl_ctx, hostname) ==
  /\ call.op \notin {"lookup", "del"}
  /\ Len(regs) < MaxAdds
  /\ nodes' = cert_lookup_tree_add_cert(nodes, hosts, ssl_ctx, hostname)
  /\ hosts' = add_cert_hosts(hosts, hostname)
  /\ regs' = Append(regs, <<hostname, ssl_ctx>>)
  /\ call' = [op |-> "add", pattern |-> <<>>, hostname |-> hostname,
              ctx |-> ssl_ctx]
  /\ result' = NullCtx
  /\ UNCHANGED matched
  /\ UNCHANGED cbVars

Lookup(hostname) ==
  /\ call.op # "lookup"
  /\ result' = cert_lookup_tree_lookup(nodes, hosts, hostname)
  /\ call' = [op |-> "lookup", pattern |-> <<>>, hostname |-> hostname,
              ctx |-> NullCtx]
  /\ UNCHANGED <<nodes, hosts, regs, matched>>
  /\ UNCHANGED cbVars

Next ==
  \/ \E c \in Contexts, h \in AddNames : AddCert(c, h)
  \/ \E q \in Queries : Lookup(q)

Spec == Init /\ [][Next]_vars

\* the same machine fed with A-label wildcard patterns
NextIdn ==
  \/ \E c \in Contexts, h \in IdnNames : AddCert(c, h)
  \/ \E q \in IdnQueries : Lookup(q)

SpecIdn == Init /\ [][NextIdn]_vars

-----------------------------------------------------------------------------
(* The matcher applied to one pattern and one hostname *)

InitMatch ==
  /\ nodes = <<RootNode>>
  /\ hosts = <<>>
  /\ regs = <<>>
  /\ call \in {[op |-> "args", pattern |-> p, hostname |-> h, ctx |-> NullCtx] :
                 p \in MatchPatterns, h \in MatchHosts}
  /\ result = NullCtx
  /\ matched = FALSE
  /\ CallbacksIdle

Match ==
  /\ call.op = "args"
  /\ matched' = tls_hostname_match(call.pattern, call.hostname)
  /\ call' = [call EXCEPT !.op = "match"]
  /\ UNCHANGED <<nodes, hosts, regs, result>>
  /\ UNCHANGED cbVars

NextMatch == Match

SpecMatch == InitMatch /\ [][NextMatch]_vars

-----------------------------------------------------------------------------
(* Vocabulary of the properties *)

HasWildcard(h) == \E i \in 1..Len(h) : h[i] = "*"

\* the registrations made so far, as recorded call by call
RegName(k) == regs[k][1]
RegCtx(k) == regs[k][2]

WildcardFree == \A k \in 1..Len(regs) : ~ HasWildcard(RegName(k))

\* the context of the first registration whose lower-cased hostname is the
\* lower-cased q, nullptr when there is none
FirstRegistered(q) ==
  LET same == {k \in 1..Len(regs) :
                 Len(RegName(k)) > 0 /\ ToLower(RegName(k)) = ToLower(q)}
  IN  IF same = {} THEN NullCtx ELSE RegCtx(Min(same))

LookupNow(q) == cert_lookup_tree_lookup(nodes, hosts, q)

NumOf(s, c) == Cardinality({i \in 1..Len(s) : s[i] = c})

\* p is *.d.e with non-empty labels d and e
StarParent(p) ==
  /\ Len(p) >= 5
  /\ p[1] = "*" /\ p[2] = "."
  /\ NumOf(p, "*") = 1 /\ NumOf(p, ".") = 2
  /\ p[3] # "." /\ p[Len(p)] # "."

\* h is x.parent for a non-empty label x; parent begins with '.'
OneLabelUnder(h, parent) ==
  LET fd == strchr(h, 0, ".")
  IN  fd >= 1 /\ strieq(From(h, fd), parent)

\* h is y.x.parent for non-empty labels y and x
TwoLabelsUnder(h, parent) ==
  LET fd == strchr(h, 0, ".")
      sd == IF fd = -1 THEN -1 ELSE strchr(h, fd + 1, ".")
  IN  fd >= 1 /\ sd > fd + 1 /\ strieq(From(h, sd), parent)

\* the wildcard pattern of the data model: a '*' in the left-most label, at
\* least two dots, no A-label
IsWildcardPattern(p) ==
  /\ HasWildcard(p)
  /\ NumOf(p, ".") >= 2
  /\ strchr(p, 0, "*") < strchr(p, 0, ".")
  /\ ~ istartsWith(p, XnPrefix)

\* h is p with its first '*' replaced by one or more characters other than '.'
IsExpansion(p, h) ==
  LET star == strchr(p, 0, "*")
      n == Len(h) - Len(p) + 1
  IN  /\ n >= 1
      /\ strieq(Range(h, 0, star), Range(p, 0, star))
      /\ \A i \in star..(star + n - 1) : At(h, i) # "."
      /\ strieq(From(h, star + n), From(p, star + 1))

\* the tree and the buffers that the add_cert calls rs build from a new tree
RECURSIVE TreeOf(_)
TreeOf(rs) ==
  IF rs = <<>>
  THEN [nodes |-> <<RootNode>>, hosts |-> <<>>]
  ELSE LET t == TreeOf(SubSeq(rs, 1, Len(rs) - 1))
           r == rs[Len(rs)]
       IN  [nodes |-> cert_lookup_tree_add_cert(t.nodes, t.hosts, r[2], r[1]),
            hosts |-> add_cert_hosts(t.hosts, r[1])]

\* the registrations with their hostnames lower-cased
LowerRegs == [k \in 1..Len(regs) |-> <<ToLower(RegName(k)), RegCtx(k)>>]

Name_ade == <<"a", ".", "d", ".", "e">>
Name_bde == <<"b", ".", "d", ".", "e">>
Name_de == <<"d", ".", "e">>
Name_xde == <<"x", ".", "d", ".", "e">>
Name_ADe == <<"A", ".", "D", ".", "e">>
Name_aDE == <<"a", ".", "D", ".", "E">>
Pat_star_de == <<"*", ".", "d", ".", "e">>
Pat_xn_star_de == <<"x", "n", "-", "-", "*", ".", "d", ".", "e">>

LookedUp(q, r) == call.op = "lookup" /\ call.hostname = q /\ result = r

-----------------------------------------------------------------------------
(* Properties *)

\* C1: every registered non-empty hostname H is looked up to its context C,
\* unless an earlier registration bound the same (lower-cased) hostname to
\* another context.  Stated as claimed; the tree does not satisfy it.
C1_RegisteredNameFound ==
  \A k \in 1..Len(regs) :
    (/\ call.op = "lookup"
     /\ call.hostname = RegName(k)
     /\ Len(RegName(k)) > 0
     /\ \A j \in 1..(k - 1) :
          ToLower(RegName(j)) = ToLower(RegName(k)) => RegCtx(j) = RegCtx(k))
    => result = RegCtx(k)

\* C2: when a hostname is registered exactly and a registered wildcard pattern
\* matches it, in either order, the lookup of the hostname returns the exact
\* registration's context; a hostname covered by wildcards only gets the
\* context of one of them.  Stated as claimed; the tree does not satisfy it.
C2_ExactPreemptsWildcard ==
  call.op = "lookup" =>
    LET q == call.hostname
        ws == {k \in 1..Len(regs) :
                 /\ IsWildcardPattern(RegName(k))
                 /\ IsExpansion(RegName(k), q)}
    IN  /\ (FirstRegistered(q) # NullCtx /\ ~ HasWildcard(q) /\ ws # {})
           => result = FirstRegistered(q)
        /\ (FirstRegistered(q) = NullCtx /\ ws # {})
           => result \in {RegCtx(k) : k \in ws}

\* C3: of two registrations of the same wildcard-free hostname (compared
\* lower-cased) with different contexts the first is kept, whatever other
\* wildcard-free hostnames are registered before, between or after them.
C3_FirstRegistrationKept ==
  (WildcardFree /\ call.op = "lookup") =>
    \A j \in 1..Len(regs), k \in 1..Len(regs) :
      (/\ j < k
       /\ Len(RegName(j)) > 0
       /\ ToLower(RegName(j)) = ToLower(RegName(k))
       /\ RegCtx(j) # RegCtx(k)
       /\ \A m \in 1..(j - 1) : ToLower(RegName(m)) # ToLower(RegName(j))
       /\ ToLower(call.hostname) = ToLower(RegName(j)))
      => result = RegCtx(j)

C3_Witness ==
  /\ Len(regs) = 3
  /\ regs[1] = <<Name_ade, 1>>
  /\ regs[2] = <<Name_bde, 2>>
  /\ regs[3] = <<Name_ADe, 2>>
  /\ LookedUp(Name_aDE, 1)

\* C4: with *.d.e -> W as the only registration, x.d.e is looked up to W for
\* every non-empty label x, and y.x.d.e and d.e are looked up to nothing.
C4_WildcardOnly ==
  (call.op = "lookup" /\ Len(regs) = 1 /\ StarParent(RegName(1))) =>
    LET q == call.hostname
        parent == From(RegName(1), 1)
    IN  /\ OneLabelUnder(q, parent) => result = RegCtx(1)
        /\ TwoLabelsUnder(q, parent) => result = NullCtx
        /\ strieq(q, From(RegName(1), 2)) => result = NullCtx

C4_Witness ==
  /\ regs = << <<Pat_star_de, 2>> >>
  /\ LookedUp(Name_xde, 2)

\* C5: after registrations of wildcard-free hostnames only, the lookup of any
\* hostname returns the context of the first registration of its lower-cased
\* form, and nothing when there is none.
C5_ExactLookupIsFirstRegistered ==
  (WildcardFree /\ call.op = "lookup") =>
    result = FirstRegistered(call.hostname)

C5_Witness ==
  /\ regs = << <<Name_ade, 1>>, <<Name_bde, 2>> >>
  /\ LookedUp(Name_de, NullCtx)

\* C6: a hostname is looked up to the result of its lower-cased form, so that
\* hostnames equal after lower-casing get the same result; and after every
\* registration the tree is the tree built from the lower-cased hostnames.
C6_CaseInsensitive ==
  /\ call.op = "lookup" => result = LookupNow(ToLower(call.hostname))
  /\ call.op = "add" => [nodes |-> nodes, hosts |-> hosts] = TreeOf(LowerRegs)

C6_Witness ==
  /\ regs = << <<Name_ADe, 1>> >>
  /\ LookedUp(Name_aDE, 1)

\* C7: a registered pattern with a '*' that begins with xn-- (in any case) is
\* matched and looked up literally only: the matcher accepts a hostname for it
\* exactly when the two are equal case-insensitively, and a lookup returns the
\* context of the first registration equal to the hostname, or nothing.
C7_IdnWildcardLiteralOnly ==
  (\A k \in 1..Len(regs) :
     HasWildcard(RegName(k)) /\ istartsWith(RegName(k), XnPrefix))
  => /\ \A k \in 1..Len(regs), q \in IdnQueries :
          /\ tls_hostname_match(RegName(k), q) <=> strieq(RegName(k), q)
          /\ tls_hostname_match(hosts[k], q) <=> strieq(RegName(k), q)
     /\ \A q \in IdnQueries : LookupNow(q) = FirstRegistered(q)

C7_Witness ==
  /\ regs = << <<Pat_xn_star_de, 1>> >>
  /\ LookedUp(<<"x", "n", "-", "-", "a", ".", "d", ".", "e">>, NullCtx)

\* C8: the pattern *.d.e matches every hostname x.d.e with a non-empty label
\* x, in any letter case of the two.
C8_StarMatchesOneLabel ==
  (/\ call.op = "match"
   /\ StarParent(call.pattern)
   /\ OneLabelUnder(call.hostname, From(call.pattern, 1)))
  => matched

C8_Witness ==
  /\ call.op = "match"
  /\ call.pattern = <<"*", ".", "D", ".", "e">>
  /\ call.hostname = <<"A", "b", ".", "d", ".", "E">>
  /\ matched

\* C9: the pattern *.d.e matches neither d.e nor x.y.d.e; a wildcard pattern
\* matches only hostnames that have a '.' and that, from their first '.' on,
\* equal the pattern from its first '.' on.
C9_StarStaysInLeftLabel ==
  call.op = "match" =>
    /\ (StarParent(call.pattern) /\ strieq(call.hostname, From(call.pattern, 2)))
       => ~ matched
    /\ (StarParent(call.pattern)
        /\ TwoLabelsUnder(call.hostname, From(call.pattern, 1)))
       => ~ matched
    /\ (IsWildcardPattern(call.pattern) /\ matched)
       => /\ strchr(call.hostname, 0, ".") # -1
          /\ strieq(From(call.hostname, strchr(call.hostname, 0, ".")),
                    From(call.pattern, strchr(call.pattern, 0, ".")))

C9_Witness ==
  /\ call.op = "match"
  /\ call.pattern = Pat_star_de
  /\ call.hostname = <<"a", ".", "a", ".", "d", ".", "e">>
  /\ ~ matched

\* C10: a wildcard pattern pre*suf.rest with a single '*' matches a hostname
\* exactly when the hostname is pre X suf.rest, case-insensitively, for some X
\* of one or more characters without a '.'.
C10_MatchIffExpansion ==
  (/\ call.op = "match"
   /\ IsWildcardPattern(call.pattern)
   /\ NumOf(call.pattern, "*") = 1)
  => (matched <=> IsExpansion(call.pattern, call.hostname))

C10_Witness ==
  /\ call.op = "match"
  /\ call.pattern = <<"a", "*", "a", ".", "d", ".", "e">>
  /\ call.hostname = <<"a", "b", "a", ".", "d", ".", "e">>
  /\ matched

\* p has a '*' but no '.', or no second '.', or its first '*' right of its
\* first '.'
DisabledWildcard(p) ==
  /\ HasWildcard(p)
  /\ \/ strchr(p, 0, ".") = -1
     \/ NumOf(p, ".") < 2
     \/ strchr(p, 0, ".") < strchr(p, 0, "*")

\* C11: for a pattern with a '*' that has no '.', no second '.', or its first
\* '*' right of its first '.', the matcher is case-insensitive equality.
C11_DisabledWildcardIsEquality ==
  (call.op = "match" /\ DisabledWildcard(call.pattern))
  => (matched <=> strieq(call.pattern, call.hostname))

C11_Witness ==
  /\ call.op = "match"
  /\ call.pattern = <<"*", ".", "e">>
  /\ call.hostname = <<"a", ".", "e">>
  /\ ~ matched

\* the part of a pattern to the right of its '*'
AfterStar(p) == ToLower(From(p, strchr(p, 0, "*") + 1))

\* C12: when the registered wildcard patterns that cover a hostname all have
\* the same part after '*', the lookup returns the context of the one that was
\* registered first.
C12_FirstWildcardWins ==
  call.op = "lookup" =>
    LET q == call.hostname
        ws == {k \in 1..Len(regs) :
                 /\ IsWildcardPattern(RegName(k))
                 /\ IsExpansion(RegName(k), q)}
    IN  (ws # {} /\ \A k \in ws, m \in ws : AfterStar(RegName(k)) = AfterStar(RegName(m)))
        => result = RegCtx(Min(ws))

C12_Witness ==
  /\ regs = << <<(<<"a", "*", ".", "d", ".", "e">>), 1>>, <<Pat_star_de, 2>> >>
  /\ LookedUp(<<"a", "b", ".", "d", ".", "e">>, 1)

-----------------------------------------------------------------------------
(* ticket_key_cb: the session ticket key callback *)

\* number of keys in the enumerated key rings
MaxKeys == 3

\* 16-byte key names, one letter each
KeyNames == {"k", "l", "m", "n"}

\* worker_config->ticket_keys is nullptr
NoRing == <<>>

RECURSIVE Rings(_)
\* the rings of n keys with pairwise distinct names; a ring is the sequence of
\* the names of its keys
Rings(n) ==
  IF n = 0 THEN {<<>>}
  ELSE {Append(r, k) : r \in Rings(n - 1), k \in KeyNames} \ 
       {r \in {Append(r, k) : r \in Rings(n - 1), k \in KeyNames} :
          \E i \in 1..Len(r), j \in 1..Len(r) : i # j /\ r[i] = r[j]}

\* the configured rings are never empty (line 160)
TicketKeys == UNION {Rings(n) : n \in 1..MaxKeys}

\* line 174: the key used to encrypt, as an index into keys (0-based)
EncKey_Last(keys) == Len(keys) - 1

EncKey(keys) == 0

\* line 186: the key whose name the i-th round of the search compares
SearchKey(keys, i) == At(keys, 0)

\* lines 184-190: the index at which the search loop stops
SearchStop(keys, key_name) ==
  LET hit == {i \in 0..(Len(keys) - 1) : SearchKey(keys, i) = key_name}
  IN  IF hit = {} THEN Len(keys) ELSE Min(hit)

\* The callback on the arguments c; ret is the returned value, key_name the
\* buffer after the call, and init_key the 0-based index of the key that
\* initialised ctx and hctx (-1: they were left alone).
ticket_key_cb(c) ==
  IF c.ticket_keys = NoRing
  THEN [c EXCEPT !.op = "ticket", !.ret = -1]
  ELSE IF c.enc = 1
  THEN IF ~ c.rand_ok
       THEN [c EXCEPT !.op = "ticket", !.ret = -1]
       ELSE [c EXCEPT !.op = "ticket", !.ret = 1,
                      !.key_name = At(c.ticket_keys, EncKey(c.ticket_keys)),
                      !.init_key = EncKey(c.ticket_keys)]
  ELSE LET i == SearchStop(c.ticket_keys, c.key_name)
       IN  IF i = Len(c.ticket_keys)
           THEN [c EXCEPT !.op = "ticket", !.ret = 0]
           ELSE [c EXCEPT !.op = "ticket", !.init_key = i,
                          !.ret = IF i = 0 THEN 1 ELSE 2]

InitTicket ==
  /\ TreeEmpty
  /\ handler = NoHandler
  /\ ssl = <<>>
  /\ worker_config = NoConfig
  /\ cb \in {[op |-> "ticket_args", ticket_keys |-> r, enc |-> e,
              key_name |-> k, in_name |-> k, rand_ok |-> ok, ret |-> 0,
              init_key |-> -1] :
               r \in TicketKeys \cup {NoRing}, e \in {0, 1}, k \in KeyNames,
               ok \in BOOLEAN}

TicketKeyCb ==
  /\ cb.op = "ticket_args"
  /\ cb' = ticket_key_cb(cb)
  /\ UNCHANGED treeVars
  /\ UNCHANGED <<handler, ssl, worker_config>>

NextTicket == TicketKeyCb

SpecTicket == InitTicket /\ [][NextTicket]_vars

\* the 0-based positions of the ring's keys named name
KeysNamed(keys, name) == {i \in 0..(Len(keys) - 1) : At(keys, i) = name}

\* C13: on decrypt the callback returns 2 and initialises the contexts with
\* keys[i] when the ticket's key name is that of keys[i], i > 0; it returns 1
\* when the name is that of keys[0]; it returns 0 only when no key of the ring
\* has the name.
C13_DecryptSearchesWholeRing ==
  (cb.op = "ticket" /\ cb.ticket_keys # NoRing /\ cb.enc = 0) =>
    LET ks == KeysNamed(cb.ticket_keys, cb.in_name)
    IN  /\ (ks # {} /\ Min(ks) > 0) => (cb.ret = 2 /\ cb.init_key = Min(ks))
        /\ 0 \in ks => (cb.ret = 1 /\ cb.init_key = 0)
        /\ cb.ret = 0 => ks = {}

\* C14: without a ring the callback returns -1 in both modes and selects no
\* key; with a ring, encrypting writes the name of keys[0], initialises the
\* contexts with keys[0] and returns 1, or returns -1 when the random IV
\* cannot be generated.
C14_NoRingFailsEncryptUsesFirstKey ==
  cb.op = "ticket" =>
    /\ cb.ticket_keys = NoRing =>
         (cb.ret = -1 /\ cb.init_key = -1 /\ cb.key_name = cb.in_name)
    /\ (cb.ticket_keys # NoRing /\ cb.enc = 1 /\ cb.rand_ok) =>
         (cb.ret = 1 /\ cb.init_key = 0 /\ cb.key_name = At(cb.ticket_keys, 0))
    /\ (cb.ticket_keys # NoRing /\ cb.enc = 1 /\ ~ cb.rand_ok) =>
         (cb.ret = -1 /\ cb.init_key = -1)

C14_Witness ==
  /\ cb.op = "ticket"
  /\ cb.ticket_keys = <<"l", "k">>
  /\ cb.enc = 1
  /\ cb.in_name = "k"
  /\ cb.key_name = "l"
  /\ cb.ret = 1

-----------------------------------------------------------------------------
(* info_callback: detection of a renegotiation *)

\* the bits of the where argument; the callback tests SSL_CB_HANDSHAKE_START
WhereBits == {"LOOP", "EXIT", "READ", "WRITE", "HANDSHAKE_START",
              "HANDSHAKE_DONE"}

\* Renegotiating without the test of get_tls_handshake()
Renegotiating_NoHandshakeTest(h) == h.present

\* line 222: handler && handler->get_tls_handshake()
Renegotiating(h) == h.present /\ h.tls_handshake

\* The callback on the connection object h of the session (h.present is
\* FALSE when SSL_get_app_data gives nullptr); where is kept for reference.
info_callback(h, where) ==
  IF "HANDSHAKE_START" \in where /\ Renegotiating(h)
  THEN [h EXCEPT !.op = "info", !.where = where, !.tls_renegotiation = TRUE]
  ELSE [h EXCEPT !.op = "info", !.where = where]

InitInfo ==
  /\ TreeEmpty
  /\ cb = NoCb
  /\ ssl = <<>>
  /\ worker_config = NoConfig
  /\ handler \in {[op |-> "new", present |-> pr, tls_handshake |-> FALSE,
                   tls_renegotiation |-> FALSE, where |-> {}] :
                    pr \in BOOLEAN}

InfoCallback(where) ==
  /\ handler' = info_callback(handler, where)
  /\ UNCHANGED treeVars
  /\ UNCHANGED <<cb, ssl, worker_config>>

\* the proxy records the end of the initial handshake on the connection
SetTlsHandshake ==
  /\ handler.present
  /\ ~ handler.tls_handshake
  /\ handler' = [handler EXCEPT !.op = "handshake_done", !.tls_handshake = TRUE]
  /\ UNCHANGED treeVars
  /\ UNCHANGED <<cb, ssl, worker_config>>

NextInfo ==
  \/ \E where \in SUBSET WhereBits : InfoCallback(where)
  \/ SetTlsHandshake

SpecInfo == InitInfo /\ [][NextInfo]_vars

\* C15: a step sets the renegotiation flag exactly when it is the callback on
\* a handshake-start event of a session whose connection object exists and
\* reports a completed initial handshake; no step clears the flag.
C15_RenegotiationFlag ==
  [][/\ handler'.op = "info" =>
          (handler'.tls_renegotiation <=>
             \/ handler.tls_renegotiation
             \/ /\ "HANDSHAKE_START" \in handler'.where
                /\ handler.present
                /\ handler.tls_handshake)
     /\ handler'.op # "info" =>
          handler'.tls_renegotiation = handler.tls_renegotiation]_vars

C15_Witness ==
  /\ handler.op = "info"
  /\ handler.present
  /\ handler.tls_handshake
  /\ handler.where = {"HANDSHAKE_START"}
  /\ handler.tls_renegotiation

-----------------------------------------------------------------------------
(* alpn_select_proto_cb: selection of the application protocol *)

\* length of the enumerated client lists (inlen)
MaxIn == 5

\* number of entries of the enumerated server preference lists
MaxNpn == 2

\* the bytes of the client's list; a byte is a length or a part of a name
InBytes == {0, 1, 2}

\* the protocol identifiers of get_config()->npn_list: C strings, so without
\* a zero byte
ProtoIds == {<<1>>, <<2>>, <<1, 1>>, <<1, 2>>, <<2, 1>>}

RECURSIVE NpnLists(_)
\* the preference lists of n pairwise distinct identifiers
NpnLists(n) ==
  IF n = 0 THEN {<<>>}
  ELSE {Append(l, t) : l \in NpnLists(n - 1), t \in ProtoIds} \ 
       {l \in {Append(l, t) : l \in NpnLists(n - 1), t \in ProtoIds} :
          \E i \in 1..Len(l), j \in 1..Len(l) : i # j /\ l[i] = l[j]}

InLists == UNION {Strings(InBytes, n) : n \in 0..MaxIn}

RECURSIVE EntryOffsets(_, _)
\* lines 243, 257: the offsets p the inner loop visits, from p on
EntryOffsets(in, p) ==
  IF p < Len(in) THEN {p} \cup EntryOffsets(in, p + 1 + At(in, p)) ELSE {}

\* lines 247-248: the entry at offset p lies within the list and equals
\* target_proto_id in length and bytes
EntryIs(in, p, target_proto_id) ==
  LET proto_id == p + 1
      proto_len == At(in, p)
  IN  /\ proto_id + proto_len <= Len(in)
      /\ Len(target_proto_id) = proto_len
      /\ target_proto_id = Range(in, proto_id, proto_id + proto_len)

\* the hits <<i, p>>: entry i of the preference list is the client's entry at p
AlpnHits(npn_list, in) ==
  {<<i, p>> \in (1..Len(npn_list)) \X EntryOffsets(in, 0) :
     EntryIs(in, p, npn_list[i])}

\* the hit of the first entry of the client's list that the server knows
FirstHit_ClientOrder(hits) ==
  LET p == Min({h[2] : h \in hits})
  IN  <<Min({h[1] : h \in {g \in hits : g[2] = p}}), p>>

\* lines 240-258: the outer loop runs over the preference list, the inner
\* one over the client's list, and the first hit returns
FirstHit(hits) ==
  LET i == Min({h[1] : h \in hits})
  IN  <<i, Min({h[2] : h \in {g \in hits : g[1] = i}})>>

\* The callback; out is the offset in in of the selected identifier (-1: not
\* written) and outlen its length.
alpn_select_proto_cb(c) ==
  LET hits == AlpnHits(c.npn_list, c.in)
  IN  IF hits = {}
      THEN [c EXCEPT !.op = "alpn", !.ret = "SSL_TLSEXT_ERR_NOACK"]
      ELSE [c EXCEPT !.op = "alpn", !.ret = "SSL_TLSEXT_ERR_OK",
                     !.out = FirstHit(hits)[2] + 1,
                     !.outlen = At(c.in, FirstHit(hits)[2])]

InitAlpn ==
  /\ TreeEmpty
  /\ handler = NoHandler
  /\ ssl = <<>>
  /\ worker_config = NoConfig
  /\ cb \in {[op |-> "alpn_args", npn_list |-> l, in |-> in, ret |-> "none",
              out |-> -1, outlen |-> 0] :
               l \in UNION {NpnLists(n) : n \in 0..MaxNpn}, in \in InLists}

AlpnSelectProtoCb ==
  /\ cb.op = "alpn_args"
  /\ cb' = alpn_select_proto_cb(cb)
  /\ UNCHANGED treeVars
  /\ UNCHANGED <<handler, ssl, worker_config>>

NextAlpn == AlpnSelectProtoCb

SpecAlpn == InitAlpn /\ [][NextAlpn]_vars

RECURSIVE Offered(_)
\* the protocols a client list offers: its length-prefixed entries from the
\* left, up to an entry whose declared length runs past the end of the list
Offered(in) ==
  IF in = <<>> \/ 1 + Head(in) > Len(in) THEN {}
  ELSE {SubSeq(in, 2, 1 + Head(in))}
       \cup Offered(SubSeq(in, 2 + Head(in), Len(in)))

\* the bytes the callback handed out
Selected(c) == Range(c.in, c.out, c.out + c.outlen)

\* C16: the selector returns the first entry of the server's preference list
\* that the client's list offers, whatever the order of the client's list; it
\* reports no-ack and selects nothing when no entry is offered, and an entry
\* that runs past the end of the client's list is not considered.
C16_ServerPreferenceOrder ==
  cb.op = "alpn" =>
    LET shared == {i \in 1..Len(cb.npn_list) : cb.npn_list[i] \in Offered(cb.in)}
    IN  IF shared = {}
        THEN cb.ret = "SSL_TLSEXT_ERR_NOACK" /\ cb.out = -1
        ELSE /\ cb.ret = "SSL_TLSEXT_ERR_OK"
             /\ cb.out + cb.outlen <= Len(cb.in)
             /\ Selected(cb) = cb.npn_list[Min(shared)]

C16_Witness ==
  /\ cb.op = "alpn"
  /\ cb.npn_list = <<(<<1, 2>>), (<<1>>)>>
  /\ cb.in = <<1, 1, 2, 1, 2>>
  /\ cb.ret = "SSL_TLSEXT_ERR_OK"
  /\ Selected(cb) = <<1, 2>>

-----------------------------------------------------------------------------
(* create_tls_proto_mask: the TLS version mask *)

\* number of tokens of the enumerated allow-lists
MaxTokens == 3

\* line 266
tls_names == <<(<<"T", "L", "S", "v", "1", ".", "2">>),
               (<<"T", "L", "S", "v", "1", ".", "1">>),
               (<<"T", "L", "S", "v", "1", ".", "0">>)>>

\* lines 268-269; each mask is one bit, named here
tls_masks == <<"SSL_OP_NO_TLSv1_2", "SSL_OP_NO_TLSv1_1", "SSL_OP_NO_TLSv1">>

\* the tokens a user writes into the allow-list
ProtoTokens == {tls_names[1], tls_names[2], tls_names[3],
                <<"t", "l", "s", "V", "1", ".", "2">>,
                <<"T", "L", "S", "V", "1", ".", "0">>,
                <<"S", "S", "L", "v", "3">>,
                <<"T", "L", "S", "v", "1">>}

\* TokenIs that compares the bytes as they are
TokenIs_CaseSensitive(name, token) == name = token

\* line 279
TokenIs(name, token) == strieq(name, token)

\* lines 274-287; the OR of one-bit masks is the set of the bits
create_tls_proto_mask(tls_proto_list) ==
  {tls_masks[i] : i \in {k \in 1..Len(tls_names) :
     \A j \in 1..Len(tls_proto_list) : ~ TokenIs(tls_names[k], tls_proto_list[j])}}

InitMask ==
  /\ TreeEmpty
  /\ handler = NoHandler
  /\ ssl = <<>>
  /\ worker_config = NoConfig
  /\ cb \in {[op |-> "mask_args", tls_proto_list |-> l, res |-> {}] :
               l \in UNION {Strings(ProtoTokens, n) : n \in 0..MaxTokens}}

CreateTlsProtoMask ==
  /\ cb.op = "mask_args"
  /\ cb' = [cb EXCEPT !.op = "mask", !.res = create_tls_proto_mask(cb.tls_proto_list)]
  /\ UNCHANGED treeVars
  /\ UNCHANGED <<handler, ssl, worker_config>>

NextMask == CreateTlsProtoMask

SpecMask == InitMask /\ [][NextMask]_vars

\* the allow-list names the version, in any case
Allowed(list, version) ==
  \E j \in 1..Len(list) : ToLower(list[j]) = ToLower(version)

\* C17: the mask holds the disable bit of a recognised version if and only if
\* the version is absent, compared without case, from the allow-list; it holds
\* no other bit, other tokens change nothing, and the empty list disables all
\* three versions.
C17_MaskDisablesAbsentVersions ==
  cb.op = "mask" =>
    LET l == cb.tls_proto_list
    IN  /\ "SSL_OP_NO_TLSv1" \in cb.res
             <=> ~ Allowed(l, <<"T", "L", "S", "v", "1", ".", "0">>)
        /\ "SSL_OP_NO_TLSv1_1" \in cb.res
             <=> ~ Allowed(l, <<"T", "L", "S", "v", "1", ".", "1">>)
        /\ "SSL_OP_NO_TLSv1_2" \in cb.res
             <=> ~ Allowed(l, <<"T", "L", "S", "v", "1", ".", "2">>)
        /\ cb.res \subseteq {"SSL_OP_NO_TLSv1", "SSL_OP_NO_TLSv1_1",
                             "SSL_OP_NO_TLSv1_2"}
        /\ l = <<>> => Cardinality(cb.res) = 3

C17_Witness ==
  /\ cb.op = "mask"
  /\ cb.tls_proto_list = <<(<<"t", "l", "s", "V", "1", ".", "2">>),
                           (<<"S", "S", "L", "v", "3">>)>>
  /\ cb.res = {"SSL_OP_NO_TLSv1", "SSL_OP_NO_TLSv1_1"}

-----------------------------------------------------------------------------
(* setup_server_ssl_context, cert_lookup_tree_add_cert_from_file and         *)
(* servername_callback: the tree is built at startup and read by handshakes  *)

\* number of entries of get_config()->subcerts
MaxSubcerts == 2

\* the TLS sessions whose handshakes run side by side
Sessions == {"s1", "s2"}

\* a subjectAltName entry; has_data is FALSE when the data pointer is nullptr
AltName(type, has_data, data) ==
  [type |-> type, has_data |-> has_data, data |-> data]

\* a commonName entry of the subject; utf8_ok is FALSE when
\* ASN1_STRING_to_UTF8 fails
CnEntry(utf8_ok, data) == [utf8_ok |-> utf8_ok, data |-> data]

Name_a0de == <<"a", "NUL", ".", "d", ".", "e">>
Addr_7777 == <<"7", "7", "7", "7">>

\* The certificate files of the configuration; readable is FALSE when the
\* file cannot be read or holds no X509 structure, subject is FALSE when the
\* certificate has no subject name object.
CertFiles ==
  { [readable |-> TRUE, subject |-> TRUE,
     altnames |-> <<AltName("GEN_DNS", TRUE, Name_ade),
                    AltName("GEN_IPADD", TRUE, Addr_7777),
                    AltName("GEN_DNS", TRUE, Pat_star_de)>>,
     cns |-> <<CnEntry(TRUE, Name_bde)>>],
    [readable |-> TRUE, subject |-> TRUE,
     altnames |-> <<AltName("GEN_DNS", TRUE, Name_a0de),
                    AltName("GEN_DNS", TRUE, Name_bde)>>,
     cns |-> <<CnEntry(TRUE, Name_de)>>],
    [readable |-> TRUE, subject |-> TRUE,
     altnames |-> <<AltName("GEN_DNS", TRUE, Name_de)>>,
     cns |-> <<>>],
    [readable |-> TRUE, subject |-> TRUE,
     altnames |-> <<AltName("GEN_DNS", FALSE, <<>>),
                    AltName("GEN_IPADD", FALSE, <<>>),
                    AltName("GEN_EMAIL", TRUE, Name_xde)>>,
     cns |-> <<CnEntry(FALSE, Name_xde), CnEntry(TRUE, Name_a0de),
               CnEntry(TRUE, Name_ADe), CnEntry(TRUE, Name_de)>>],
    [readable |-> TRUE, subject |-> FALSE, altnames |-> <<>>, cns |-> <<>>],
    [readable |-> FALSE, subject |-> FALSE, altnames |-> <<>>, cns |-> <<>>] }

\* std::find(name, name + len, '\0') != name + len
HasNul(name) == \E i \in 1..Len(name) : name[i] = "NUL"

\* IsDnsName that takes the entries of every type
IsDnsName_AnyType(altname) == altname.has_data /\ ~ HasNul(altname.data)

\* lines 646-656: a DNS entry with data and without an embedded NUL
IsDnsName(altname) ==
  /\ altname.type = "GEN_DNS"
  /\ altname.has_data
  /\ ~ HasNul(altname.data)

\* lines 657-665
IsIpAddr(altname) == altname.type = "GEN_IPADD" /\ altname.has_data

\* lines 674-692: a commonName entry that ends the loop
IsCommonName(entry) == entry.utf8_ok /\ ~ HasNul(entry.data)

DataOf(entries) == [i \in 1..Len(entries) |-> entries[i].data]

\* lines 636-694; common_name stays empty when no entry is taken
get_altnames(cert) ==
  LET cs == IF cert.subject THEN SelectSeq(cert.cns, IsCommonName) ELSE <<>>
  IN  [dns_names |-> DataOf(SelectSeq(cert.altnames, IsDnsName)),
       ip_addrs |-> DataOf(SelectSeq(cert.altnames, IsIpAddr)),
       common_name |-> IF cs = <<>> THEN <<>> ELSE cs[1].data]

RECURSIVE AddAll(_, _, _)
\* lines 911-915: cert_lookup_tree_add_cert for the names, from the left; t
\* holds the tree and the record of the calls
AddAll(t, ssl_ctx, names) ==
  IF names = <<>> THEN t
  ELSE AddAll([t EXCEPT
                 !.nodes = cert_lookup_tree_add_cert(t.nodes, t.hosts, ssl_ctx,
                                                     Head(names)),
                 !.hosts = add_cert_hosts(t.hosts, Head(names)),
                 !.regs = Append(t.regs, <<Head(names), ssl_ctx>>)],
              ssl_ctx, Tail(names))

\* lines 889-918; ret is the returned value
cert_lookup_tree_add_cert_from_file(t, ssl_ctx, certfile) ==
  IF ~ certfile.readable THEN [t EXCEPT !.ret = -1]
  ELSE LET an == get_altnames(certfile)
       IN  [AddAll(t, ssl_ctx, Append(an.dns_names, an.common_name))
              EXCEPT !.ret = 0]

RECURSIVE AddSubcerts(_, _, _)
\* lines 959-967: the k-th and later sub-certificates, each with the context
\* created for it; the loop ends at the first failure
AddSubcerts(t, subcerts, k) ==
  IF k > Len(subcerts) THEN t
  ELSE LET u == cert_lookup_tree_add_cert_from_file(t, k + 1, subcerts[k])
       IN  IF u.ret = -1 THEN u ELSE AddSubcerts(u, subcerts, k + 1)

\* the context create_ssl_context returns for the default certificate; the
\* k-th sub-certificate gets context k + 1
DefaultCtx == 1

\* lines 947-978 on the configuration c.  op is "ready" when the function
\* returns and "died" when it ends the process; ssl_ctx is the returned
\* context and cert_tree tells whether worker_config->cert_tree is set.
setup_server_ssl_context(c) ==
  LET t0 == [nodes |-> <<RootNode>>, hosts |-> <<>>, regs |-> <<>>, ret |-> 0]
  IN  IF c.upstream_no_tls
      THEN [t0 EXCEPT !.ret = 0] @@ [op |-> "ready", ssl_ctx |-> NullCtx,
                                     cert_tree |-> FALSE]
      ELSE IF c.subcerts = <<>>
      THEN t0 @@ [op |-> "ready", ssl_ctx |-> DefaultCtx, cert_tree |-> FALSE]
      ELSE LET t1 == AddSubcerts(t0, c.subcerts, 1)
               t2 == cert_lookup_tree_add_cert_from_file(t1, DefaultCtx,
                                                         c.cert_file)
           IN  IF t1.ret = -1
               THEN t1 @@ [op |-> "died", ssl_ctx |-> NullCtx,
                           cert_tree |-> TRUE]
               ELSE IF t2.ret = -1
               THEN t2 @@ [op |-> "died", ssl_ctx |-> NullCtx,
                           cert_tree |-> TRUE]
               ELSE t2 @@ [op |-> "ready", ssl_ctx |-> DefaultCtx,
                           cert_tree |-> TRUE]

RECURSIVE SubcertLists(_)
SubcertLists(n) ==
  IF n = 0 THEN {<<>>}
  ELSE {Append(l, f) : l \in SubcertLists(n - 1), f \in CertFiles}

NoSession == [op |-> "none", ctx |-> NullCtx, has_name |-> FALSE,
              servername |-> <<>>, ret |-> "none"]

InitServer ==
  /\ TreeEmpty
  /\ handler = NoHandler
  /\ worker_config = NoConfig
  /\ ssl = [s \in Sessions |-> NoSession]
  /\ cb \in {[op |-> "config", upstream_no_tls |-> no_tls, subcerts |-> l,
              cert_file |-> f] :
               no_tls \in BOOLEAN,
               l \in UNION {SubcertLists(n) : n \in 0..MaxSubcerts},
               f \in {g \in CertFiles : g.readable}}

SetupServerSslContext ==
  /\ worker_config = NoConfig
  /\ LET r == setup_server_ssl_context(cb)
     IN  /\ nodes' = r.nodes
         /\ hosts' = r.hosts
         /\ regs' = r.regs
         /\ worker_config' = [op |-> r.op, cert_tree |-> r.cert_tree,
                              ssl_ctx |-> r.ssl_ctx]
  /\ UNCHANGED <<call, result, matched, cb, handler, ssl>>

\* the proxy accepts a connection and creates its session from the context
\* that the setup returned
Accept(s) ==
  /\ worker_config.op = "ready"
  /\ worker_config.ssl_ctx # NullCtx
  /\ ssl[s].op = "none"
  /\ ssl' = [ssl EXCEPT ![s] = [NoSession EXCEPT !.op = "new",
                                                 !.ctx = worker_config.ssl_ctx]]
  /\ UNCHANGED treeVars
  /\ UNCHANGED <<cb, handler, worker_config>>

\* the hostnames of the server name extension
SniNames == {Name_ade, Name_bde, Name_xde, Addr_7777, <<>>}

\* lookup_effect of a tree that inserts the names it is asked for
lookup_effect_Inserts(ns, hs, hostname) ==
  [nodes |-> cert_lookup_tree_add_cert(ns, hs, NullCtx, hostname),
   hosts |-> add_cert_hosts(hs, hostname)]

\* lines 849-887: the lookup assigns to no node, no list and no buffer
lookup_effect(ns, hs, hostname) == [nodes |-> ns, hosts |-> hs]

\* Rebind that takes whatever the lookup returned
Rebind_Always(ctx, ssl_ctx) == ssl_ctx

\* lines 139-141: SSL_set_SSL_CTX only for a context that was found
Rebind(ctx, ssl_ctx) == IF ssl_ctx # NullCtx THEN ssl_ctx ELSE ctx

\* lines 131-145 on the session record x; has_name is FALSE when
\* SSL_get_servername gives nullptr
servername_callback(x, cert_tree, ns, hs, has_name, hostname) ==
  [x EXCEPT !.op = "sni", !.has_name = has_name, !.servername = hostname,
            !.ret = "SSL_TLSEXT_ERR_OK",
            !.ctx = IF cert_tree /\ has_name
                    THEN Rebind(x.ctx, cert_lookup_tree_lookup(ns, hs, hostname))
                    ELSE x.ctx]

ServernameCallback(s, has_name, hostname) ==
  /\ ssl[s].op = "new"
  /\ ssl' = [ssl EXCEPT ![s] = servername_callback(ssl[s],
                                 worker_config.cert_tree, nodes, hosts,
                                 has_name, hostname)]
  /\ nodes' = IF worker_config.cert_tree /\ has_name
              THEN lookup_effect(nodes, hosts, hostname).nodes ELSE nodes
  /\ hosts' = IF worker_config.cert_tree /\ has_name
              THEN lookup_effect(nodes, hosts, hostname).hosts ELSE hosts
  /\ UNCHANGED <<regs, call, result, matched, cb, handler, worker_config>>

NextServer ==
  \/ SetupServerSslContext
  \/ \E s \in Sessions : Accept(s)
  \/ \E s \in Sessions : ServernameCallback(s, FALSE, <<>>)
  \/ \E s \in Sessions, h \in SniNames : ServernameCallback(s, TRUE, h)

SpecServer == InitServer /\ [][NextServer]_vars

\* C18: the callback leaves the session on the context found by the lookup of
\* the SNI hostname when a tree exists, a hostname was sent and the lookup
\* finds a context; otherwise (no tree, no SNI, empty SNI, a miss) the session
\* stays on the default context; the callback always reports success.
C18_SniRebindsOnlyOnHit ==
  \A s \in Sessions :
    ssl[s].op = "sni" =>
      LET found == IF worker_config.cert_tree /\ ssl[s].has_name
                   THEN LookupNow(ssl[s].servername) ELSE NullCtx
      IN  /\ ssl[s].ret = "SSL_TLSEXT_ERR_OK"
          /\ found # NullCtx => ssl[s].ctx = found
          /\ found = NullCtx => ssl[s].ctx = worker_config.ssl_ctx
          /\ ssl[s].servername = <<>> => ssl[s].ctx = worker_config.ssl_ctx

C18_Witness ==
  /\ ssl["s1"].op = "sni"
  /\ ssl["s1"].servername = Name_ade
  /\ ssl["s1"].ctx = 2
  /\ worker_config.ssl_ctx = DefaultCtx
  /\ ssl["s2"].op = "sni"
  /\ ssl["s2"].servername = Name_xde
  /\ ssl["s2"].ctx = DefaultCtx

RECURSIVE DnsSans(_)
\* the DNS entries of a subjectAltName that have data and no NUL, in order
DnsSans(altnames) ==
  IF altnames = <<>> THEN <<>>
  ELSE LET a == Head(altnames)
       IN  IF a.type = "GEN_DNS" /\ a.has_data /\ ~ HasNul(a.data)
           THEN <<a.data>> \o DnsSans(Tail(altnames))
           ELSE DnsSans(Tail(altnames))

\* the Common Name of a certificate as a list of at most one name
CommonNames(cert) ==
  LET ok == {i \in 1..Len(cert.cns) :
               cert.subject /\ cert.cns[i].utf8_ok /\ ~ HasNul(cert.cns[i].data)}
  IN  IF ok = {} THEN <<>> ELSE <<cert.cns[Min(ok)].data>>

\* the registrations a certificate file stands for
FileRegs(cert, ssl_ctx) ==
  LET names == DnsSans(cert.altnames) \o CommonNames(cert)
  IN  [i \in 1..Len(names) |-> <<names[i], ssl_ctx>>]

RECURSIVE SubcertRegs(_, _)
SubcertRegs(subcerts, k) ==
  IF k > Len(subcerts) THEN <<>>
  ELSE FileRegs(subcerts[k], k + 1) \o SubcertRegs(subcerts, k + 1)

\* C20: the tree a setup leaves is the tree of these registrations: for each
\* certificate file its DNS SAN names in the certificate's order and then its
\* Common Name, with the file's context; no IP-address SAN and no name with an
\* embedded NUL has a buffer in the tree, and a certificate without a Common
\* Name contributes its DNS SAN names only.
C20_FileRegistersDnsSansThenCn ==
  (worker_config.op = "ready" /\ worker_config.cert_tree) =>
    LET rs == SubcertRegs(cb.subcerts, 1) \o FileRegs(cb.cert_file, DefaultCtx)
    IN  /\ [nodes |-> nodes, hosts |-> hosts] = TreeOf(rs)
        /\ hosts = [i \in 1..Len(rs) |-> ToLower(rs[i][1])]
        /\ \A i \in 1..Len(hosts) : ~ HasNul(hosts[i]) /\ hosts[i] # Addr_7777

C20_Witness ==
  /\ worker_config.op = "ready"
  /\ Len(cb.subcerts) = 1
  /\ \E i \in 1..Len(cb.subcerts[1].altnames) :
       HasNul(cb.subcerts[1].altnames[i].data)
  /\ \E i \in 1..Len(cb.cert_file.altnames) :
       cb.cert_file.altnames[i].type = "GEN_IPADD"
  /\ hosts = <<Name_bde, Name_de, Name_ade, Pat_star_de, Name_bde>>

-----------------------------------------------------------------------------
(* The shape of the tree, and cert_lookup_tree_del *)

\* hostnames registered in the trees whose shape is examined
TreeNames ==
  { Name_ade, Name_ADe, Name_bde, Name_de,
    <<".", "d", ".", "e">>,
    Pat_star_de,
    <<"a", "*", ".", "d", ".", "e">>,
    <<"*">>,
    <<"*", ".", "*", ".", "e">>,
    <<>> }

RECURSIVE cert_node_del(_, _)
RECURSIVE DelNext(_, _)
\* lines 734-736: the loop over node->next
DelNext(ns, next) ==
  IF next = <<>> THEN <<>>
  ELSE cert_node_del(ns, Head(next)) \o DelNext(ns, Tail(next))

\* lines 733-738: the nodes in the order of their delete
cert_node_del(ns, node) == Append(DelNext(ns, ns[node].next), node)

\* lines 741-747: the nodes and the hostname buffers in the order they are
\* freed
cert_lookup_tree_del(ns, hs) ==
  [op |-> "del", nodes |-> cert_node_del(ns, RootId),
   hosts |-> [i \in 1..Len(hs) |-> i]]

\* nodes and hosts keep the tree as it was handed to the deletion
Del ==
  /\ call.op # "del"
  /\ cb' = cert_lookup_tree_del(nodes, hosts)
  /\ call' = [NoCall EXCEPT !.op = "del"]
  /\ UNCHANGED <<nodes, hosts, regs, result, matched>>
  /\ UNCHANGED <<handler, ssl, worker_config>>

\* Each addition brings a context of its own, numbered by its position: the
\* code tests a context against nullptr only, so additions that share a
\* context behave as these do.
NextTree ==
  \/ \E h \in TreeNames : AddCert(Len(regs) + 1, h)
  \/ Del

SpecTree == Init /\ [][NextTree]_vars

NodeIds == 1..Len(nodes)

\* the places <<p, i>> at which node n stands in a child list
PlacesOf(n) ==
  {pl \in {<<p, i>> : p \in NodeIds, i \in 1..MaxAdds + 1} :
     pl[2] <= Len(nodes[pl[1]].next) /\ nodes[pl[1]].next[pl[2]] = n}

RECURSIVE Reach(_)
\* the nodes that can be reached from the nodes S along the child lists
Reach(S) ==
  LET T == S \cup UNION {{nodes[p].next[i] : i \in 1..Len(nodes[p].next)} : p \in S}
  IN  IF T = S THEN S ELSE Reach(T)

\* s lists every element of S exactly once
ListsOnce(s, S) ==
  /\ Len(s) = Cardinality(S)
  /\ {s[i] : i \in 1..Len(s)} = S

\* C21: the nodes form a tree rooted at the root (every other node stands in
\* exactly one child list, once; the root in none), every node made is
\* reachable from the root, hosts has one buffer per addition of a non-empty
\* hostname, and the deletion frees each node and each buffer exactly once.
C21_DeletionFreesEachNodeOnce ==
  /\ PlacesOf(RootId) = {}
  /\ \A n \in NodeIds \ {RootId} : Cardinality(PlacesOf(n)) = 1
  /\ \A p \in NodeIds : Len(nodes[p].next) <= MaxAdds + 1
  /\ Reach({RootId}) = NodeIds
  /\ Len(hosts) = Cardinality({k \in 1..Len(regs) : RegName(k) # <<>>})
  /\ cb.op = "del" =>
       /\ ListsOnce(cb.nodes, NodeIds)
       /\ ListsOnce(cb.hosts, 1..Len(hosts))

C21_Witness ==
  /\ cb.op = "del"
  /\ Len(cb.nodes) >= 5
  /\ Len(cb.hosts) = 3
  /\ \E p \in NodeIds \ {RootId} : Len(nodes[p].next) = 2

\* cn->str[cn->first]: the character with which the edge of node n begins
FirstChar(n) == At(hosts[nodes[n].str], nodes[n].first)

\* C22: the edges of the children of one node begin with pairwise distinct
\* characters, so at most one child fits any input character.
C22_ChildEdgesBeginDistinct ==
  \A p \in NodeIds :
    LET next == nodes[p].next
    IN  /\ \A i \in 1..Len(next), j \in 1..Len(next) :
             i # j => FirstChar(next[i]) # FirstChar(next[j])
        /\ \A c \in {"a", "b", "d", "e", ".", "*"} :
             Cardinality({i \in 1..Len(next) : FirstChar(next[i]) = c}) <= 1

C22_Witness ==
  /\ call.op = "add"
  /\ Len(regs) = 3
  /\ \E p \in NodeIds \ {RootId} :
       /\ Len(nodes[p].next) = 2
       /\ FirstChar(nodes[p].next[1]) = "a"
       /\ FirstChar(nodes[p].next[2]) = "b"

\* the characters of the edge of node n, cn->str(last, first], as text
Label(n) ==
  IF nodes[n].str = 0 THEN <<>>
  ELSE Range(hosts[nodes[n].str], nodes[n].last + 1, nodes[n].first + 1)

\* the node in whose child list n stands
Parent(n) == (CHOOSE pl \in PlacesOf(n) : TRUE)[1]

RECURSIVE Path(_)
\* the hostname suffix spelled by the walk from the root to node n
Path(n) == IF n = RootId THEN <<>> ELSE Label(n) \o Path(Parent(n))

\* C23: a node with a context spells, on the walk from the root, the
\* lower-cased form of a hostname registered without '*', and its context is
\* that of a registration of this hostname; the root and a node that stands
\* for a shared suffix only carry no context.
C23_ContextMarksRegisteredName ==
  /\ nodes[RootId].ssl_ctx = NullCtx
  /\ \A n \in NodeIds :
       nodes[n].ssl_ctx # NullCtx =>
         \E k \in 1..Len(regs) :
           /\ RegName(k) # <<>>
           /\ ~ HasWildcard(RegName(k))
           /\ ToLower(RegName(k)) = Path(n)
           /\ RegCtx(k) = nodes[n].ssl_ctx

C23_Witness ==
  /\ regs = << <<Name_ADe, 1>>, <<Name_bde, 2>>, <<Name_de, 3>> >>
  /\ \E n \in NodeIds, m \in NodeIds, u \in NodeIds :
       /\ Path(n) = Name_de /\ nodes[n].ssl_ctx = 3
       /\ Path(m) = Name_ade /\ nodes[m].ssl_ctx = 1
       /\ Path(u) = <<".", "d", ".", "e">> /\ nodes[u].ssl_ctx = NullCtx

\* the part of a pattern to the right of its '*'
RightOfStar(p) == From(p, ScanWildcard(p, Len(p) - 1) + 1)

\* the entries <<pattern, context>> of the wildcard list of node n
WildcardsOn(n) ==
  {<<hosts[nodes[n].wildcard_certs[t][1]], nodes[n].wildcard_certs[t][2]>> :
     t \in 1..Len(nodes[n].wildcard_certs)}

\* C24: every entry of a wildcard list stands on the node whose walk from the
\* root spells the part of its pattern to the right of the '*', also after
\* later additions have split that node; every registered pattern has its
\* entry; no edge contains a '*'.
C24_WildcardsKeyedBySuffix ==
  /\ \A n \in NodeIds :
       /\ \A w \in WildcardsOn(n) : HasWildcard(w[1]) /\ Path(n) = RightOfStar(w[1])
       /\ ~ HasWildcard(Label(n))
  /\ \A k \in 1..Len(regs) :
       HasWildcard(RegName(k)) =>
         \E n \in NodeIds : <<ToLower(RegName(k)), RegCtx(k)>> \in WildcardsOn(n)

C24_Witness ==
  /\ regs = << <<Pat_star_de, 1>>, <<Name_de, 2>>, <<Name_ade, 3>> >>
  /\ \E n \in NodeIds :
       /\ WildcardsOn(n) = {<<Pat_star_de, 1>>}
       /\ Path(n) = <<".", "d", ".", "e">>
       /\ Label(n) = <<".">>
       /\ Len(nodes[n].next) = 1
       /\ nodes[Parent(n)].ssl_ctx = 2

\* C25: the root keeps first = last = 0 and no context; every other node has
\* a non-empty edge with first > last >= -1, so first >= last holds for all.
C25_EdgesNonEmptyExceptRoot ==
  /\ nodes[RootId].first = 0
  /\ nodes[RootId].last = 0
  /\ nodes[RootId].str = 0
  /\ nodes[RootId].ssl_ctx = NullCtx
  /\ \A n \in NodeIds : nodes[n].first >= nodes[n].last
  /\ \A n \in NodeIds \ {RootId} :
       /\ nodes[n].first > nodes[n].last
       /\ nodes[n].last >= -1
       /\ Label(n) # <<>>

C25_Witness ==
  /\ Len(regs) = 3
  /\ Len(nodes[RootId].next) = 1
  /\ nodes[RootId].wildcard_certs # <<>>
  /\ \E n \in NodeIds, m \in NodeIds :
       /\ nodes[n].last = -1 /\ nodes[n].first = 0
       /\ m = Parent(n) /\ m # RootId /\ nodes[m].last = 0

\* C26: an addition of a hostname of length 0 leaves the nodes with their
\* contexts, child and wildcard lists, and the hosts list as they were, so
\* every lookup gives what it gave before.
C26_EmptyHostnameAddsNothing ==
  [][(call'.op = "add" /\ call'.hostname = <<>> /\ regs' # regs) =>
       /\ nodes' = nodes
       /\ hosts' = hosts
       /\ \A q \in Queries :
            cert_lookup_tree_lookup(nodes', hosts', q)
              = cert_lookup_tree_lookup(nodes, hosts, q)]_vars

C26_Witness ==
  /\ call.op = "add"
  /\ call.hostname = <<>>
  /\ regs = << <<Pat_star_de, 1>>, <<Name_ade, 2>>, <<(<<>>), 3>> >>
  /\ Len(hosts) = 2
  /\ Len(nodes) = 3

\* rs with the additions k and k + 1 in the other order
SwapAt(rs, k) ==
  [i \in 1..Len(rs) |-> IF i = k THEN rs[k + 1]
                        ELSE IF i = k + 1 THEN rs[k] ELSE rs[i]]

\* the additions r and u cannot conflict: their lower-cased hostnames differ
\* and at least one of them has no '*'
CannotConflict(r, u) ==
  /\ ToLower(r[1]) # ToLower(u[1])
  /\ ~ HasWildcard(r[1]) \/ ~ HasWildcard(u[1])

\* the hostnames asked of the two trees
SwapQueries == Queries \cup {<<".", "d", ".", "e">>, <<"e">>, <<"*">>}

\* C27: with two adjacent additions that cannot conflict made in the other
\* order, whatever additions follow them, the tree gives the same result for
\* every hostname asked.
C27_SwapKeepsLookup ==
  call.op = "add" =>
    \A k \in 1..(Len(regs) - 1) :
      CannotConflict(regs[k], regs[k + 1]) =>
        LET t == TreeOf(SwapAt(regs, k))
        IN  \A q \in SwapQueries :
              cert_lookup_tree_lookup(t.nodes, t.hosts, q) = LookupNow(q)

C27_Witness ==
  /\ call.op = "add"
  /\ regs = << <<Name_ade, 1>>, <<Pat_star_de, 2>>, <<Name_de, 3>> >>
  /\ [nodes |-> nodes, hosts |-> hosts].nodes # TreeOf(SwapAt(regs, 1)).nodes
  /\ LookupNow(Name_bde) = 2

\* the contexts registered for the hostname q, lower-cased
CtxsOf(q) ==
  {RegCtx(k) : k \in {i \in 1..Len(regs) :
     RegName(i) # <<>> /\ ToLower(RegName(i)) = ToLower(q)}}

\* C28: the setup makes a tree exactly when a sub-certificate is configured
\* and registers the names of the sub-certificates in their order before those
\* of the default certificate; so a session that asks for a hostname without
\* '*' that two certificates carry ends on the context of the certificate
\* registered first, a sub-certificate.
C28_EarlierSubcertWins ==
  (worker_config.op = "ready" /\ ~ cb.upstream_no_tls) =>
    LET rs == SubcertRegs(cb.subcerts, 1) \o FileRegs(cb.cert_file, DefaultCtx)
    IN  /\ worker_config.cert_tree <=> cb.subcerts # <<>>
        /\ worker_config.cert_tree =>
             hosts = [i \in 1..Len(rs) |-> ToLower(rs[i][1])]
        /\ \A s \in Sessions :
             (/\ worker_config.cert_tree
              /\ ssl[s].op = "sni"
              /\ ssl[s].has_name
              /\ ~ HasWildcard(ssl[s].servername)
              /\ Cardinality(CtxsOf(ssl[s].servername)) >= 2)
             => /\ ssl[s].ctx = FirstRegistered(ssl[s].servername)
                /\ ssl[s].ctx # DefaultCtx

-----------------------------------------------------------------------------
(* verify_hostname: the peer certificate against the backend's host *)

\* sizeof(in_addr) and sizeof(in6_addr): the length of an address, which is
\* also the length of an iPAddress entry
InAddrLen == 4
In6AddrLen == 16

\* sizeof(sockaddr_in) and sizeof(sockaddr_in6): the length of a socket
\* address as the socket calls take it
SockaddrInLen == 16
SockaddrIn6Len == 28

Zeros(n) == [i \in 1..n |-> 0]

Ip4A == <<10, 0, 0, 1>>
Ip4B == <<10, 0, 0, 2>>
Ip6A == <<32, 1>> \o Zeros(13) \o <<1>>
\* 16 bytes that begin as Ip4A does
Ip6Z == Ip4A \o Zeros(12)

\* hosts given as address literals, and a pattern of the same look
Host_123 == <<"1", ".", "2", ".", "3">>
Pat_star_23 == <<"*", ".", "2", ".", "3">>

\* util::numeric_host: the hostname is an address literal
numeric_host(hostname) == hostname = Host_123

\* The socket address: bytes are the bytes of the union from the address
\* field on (sin_addr or sin6_addr), the address first and after it whatever
\* the union holds there.
SockAddrs ==
  {[ss_family |-> f, bytes |-> a \o t] :
     f \in {"AF_INET"}, a \in {Ip4A, Ip4B},
     t \in {Zeros(SockaddrIn6Len), [i \in 1..SockaddrIn6Len |-> 255]}}
  \cup {[ss_family |-> "AF_INET6", bytes |-> Ip6A \o Zeros(SockaddrIn6Len)],
        [ss_family |-> "AF_UNIX", bytes |-> Zeros(SockaddrIn6Len)]}

\* the lengths passed as salen
SaLens == {InAddrLen, In6AddrLen, SockaddrInLen, SockaddrIn6Len}

VerifyHosts == {Name_ade, Name_aDE, Name_de, Host_123}
VerifyDnsNames == {<<>>, <<Pat_star_de>>, <<Name_bde, Name_ade>>,
                   <<Pat_star_23>>}
VerifyIpAddrs == {<<>>, <<Ip4A>>, <<Ip4B, Ip4A>>, <<Ip6A>>, <<Ip6Z>>}
VerifyCommonNames == {<<>>, Name_ade, Pat_star_de, Host_123, Pat_star_23}

\* lines 619-620: an entry of ip_addrs is the salen bytes at saddr
SameAddr(saddr, salen, ip_addr) ==
  salen = Len(ip_addr) /\ Range(saddr, 0, salen) = ip_addr

\* lines 596-634; 0 is a match
verify_hostname(hostname, su, salen, dns_names, ip_addrs, common_name) ==
  IF numeric_host(hostname)
  THEN IF ip_addrs = <<>>
       THEN IF strieq(common_name, hostname) THEN 0 ELSE -1
       ELSE IF su.ss_family \notin {"AF_INET", "AF_INET6"} THEN -1
       ELSE IF \E i \in 1..Len(ip_addrs) : SameAddr(su.bytes, salen, ip_addrs[i])
            THEN 0 ELSE -1
  ELSE IF dns_names = <<>>
       THEN IF tls_hostname_match(common_name, hostname) THEN 0 ELSE -1
       ELSE IF \E i \in 1..Len(dns_names) :
                 tls_hostname_match(dns_names[i], hostname)
            THEN 0 ELSE -1

InitVerify ==
  /\ TreeEmpty
  /\ handler = NoHandler
  /\ ssl = <<>>
  /\ worker_config = NoConfig
  /\ cb \in {[op |-> "verify_args", hostname |-> h, su |-> su, salen |-> n,
              dns_names |-> d, ip_addrs |-> a, common_name |-> c, ret |-> 0] :
               h \in VerifyHosts, su \in SockAddrs, n \in SaLens,
               d \in VerifyDnsNames, a \in VerifyIpAddrs,
               c \in VerifyCommonNames}

VerifyHostname ==
  /\ cb.op = "verify_args"
  /\ cb' = [cb EXCEPT !.op = "verify",
                      !.ret = verify_hostname(cb.hostname, cb.su, cb.salen,
                                              cb.dns_names, cb.ip_addrs,
                                              cb.common_name)]
  /\ UNCHANGED treeVars
  /\ UNCHANGED <<handler, ssl, worker_config>>

NextVerify == VerifyHostname

SpecVerify == InitVerify /\ [][NextVerify]_vars

\* the address of the peer: the address field of the socket address
PeerAddr(su) ==
  Range(su.bytes, 0, IF su.ss_family = "AF_INET" THEN InAddrLen ELSE In6AddrLen)

\* C29: for a hostname that is no address literal the check succeeds exactly
\* when some DNS SAN matches under the wildcard matcher, and the Common Name
\* is matched (with wildcards) only when there is no DNS SAN; for an address
\* literal it succeeds exactly when some IP SAN has the length and the bytes
\* of the peer's address, and the Common Name is compared literally only when
\* there is no IP SAN.
C29_CommonNameOnlyAsFallback ==
  cb.op = "verify" =>
    LET ok == cb.ret = 0
    IN  /\ (~ numeric_host(cb.hostname) /\ cb.dns_names # <<>>) =>
             (ok <=> \E i \in 1..Len(cb.dns_names) :
                       tls_hostname_match(cb.dns_names[i], cb.hostname))
        /\ (~ numeric_host(cb.hostname) /\ cb.dns_names = <<>>) =>
             (ok <=> tls_hostname_match(cb.common_name, cb.hostname))
        /\ (/\ numeric_host(cb.hostname)
            /\ cb.ip_addrs # <<>>
            /\ cb.su.ss_family \in {"AF_INET", "AF_INET6"}) =>
             (ok <=> \E i \in 1..Len(cb.ip_addrs) :
                       cb.ip_addrs[i] = PeerAddr(cb.su))
        /\ (numeric_host(cb.hostname) /\ cb.ip_addrs = <<>>) =>
             (ok <=> ToLower(cb.common_name) = ToLower(cb.hostname))

====
